---- MODULE Spec2Model ----
(***************************************************************************)
(* kvcache: the process bootstrap of src/main.cpp.                         *)
(*                                                                         *)
(*   int main(int argc, char** argv) {                                     *)
(*       seastar::app_template app;                                        *)
(*       app.run(argc, argv, [] {                                          *)
(*           std::cout << "kvcache: online with " << seastar::smp::count   *)
(*                     << " threads.\n";                                   *)
(*           return seastar::make_ready_future<>();                        *)
(*       });                                                               *)
(*   }                                                                     *)
(*                                                                         *)
(* The state is the position of main, the command line and the machine it  *)
(* runs on, the per-core reactors that app.run starts and stops, the       *)
(* startup task and its future, standard output, the value app.run         *)
(* returns and the value main returns.  The repository holds no shard,     *)
(* cache store, router or fabric: the model has no such state either.      *)
(***************************************************************************)
EXTENDS Integers, Sequences, FiniteSets

\* Largest core count (machine CPUs, and the value of --smp) explored.
MaxCores == 4

VARIABLES
    pc,          \* position of main: "parse", "configure", "reactors", "returned", "exited"
    opts,        \* the command line (argc, argv) as app.run reads it
    cpus,        \* processing units the machine offers
    smp_count,   \* seastar::smp::count, 0 until the runtime is configured
    reactor,     \* core -> "init" | "running" | "stopped"
    task,        \* the startup task: "none" | "ready" | "pending"
    invoked,     \* core -> number of times the startup task body ran there
    exiting,     \* engine().exit() has been called
    stdout,      \* the lines written to standard output, in order
    run_result,  \* the int app.run returned, -1 before it returns
    exit_code    \* the process exit code, -1 before main returns

vars == <<pc, opts, cpus, smp_count, reactor, task, invoked, exiting,
          stdout, run_result, exit_code>>

\* The command lines explored: --help given or not, an unknown option given
\* or not, --smp n (0: the option is absent).
Options == [help : BOOLEAN, bad : BOOLEAN, smp : 0..MaxCores]

Cores == 0..(smp_count - 1)

\* The line the startup task writes (main.cpp line 9).
OnlineMsg(n) == <<"online", n>>

\* What --help makes app.run write to standard output.
HelpMsg == <<"help">>

\* The number the startup task reports: seastar::smp::count.
ReportedCount == smp_count

\* The cores on which app.run invokes the startup task: the main shard only.
TaskCoresAll == Cores
TaskCores == {0}

\* The future the startup task returns: make_ready_future<>().
TaskFuturePending == "pending"
TaskFuture == "ready"

\* The value main returns: app.run's result is discarded and control falls
\* off the end of main, which returns 0.
MainReturnValue(r) == 0

AllRunning == \A c \in Cores : reactor[c] = "running"
AllStopped == \A c \in Cores : reactor[c] = "stopped"

RECURSIVE Repeat(_, _)
Repeat(x, n) == IF n = 0 THEN <<>> ELSE <<x>> \o Repeat(x, n - 1)

Init ==
    /\ pc = "parse"
    /\ opts \in Options
    /\ cpus \in 1..MaxCores
    /\ smp_count = 0
    /\ reactor = <<>>
    /\ task = "none"
    /\ invoked = <<>>
    /\ exiting = FALSE
    /\ stdout = <<>>
    /\ run_result = -1
    /\ exit_code = -1

\* app.run parses the command line: an unknown option makes it return 2,
\* --help makes it print the options and return 1.
ParseRejected ==
    /\ pc = "parse"
    /\ opts.bad
    /\ run_result' = 2
    /\ pc' = "returned"
    /\ UNCHANGED <<opts, cpus, smp_count, reactor, task, invoked, exiting,
                   stdout, exit_code>>

ParseHelp ==
    /\ pc = "parse"
    /\ ~opts.bad
    /\ opts.help
    /\ stdout' = Append(stdout, HelpMsg)
    /\ run_result' = 1
    /\ pc' = "returned"
    /\ UNCHANGED <<opts, cpus, smp_count, reactor, task, invoked, exiting,
                   exit_code>>

ParseOk ==
    /\ pc = "parse"
    /\ ~opts.bad
    /\ ~opts.help
    /\ pc' = "configure"
    /\ UNCHANGED <<opts, cpus, smp_count, reactor, task, invoked, exiting,
                   stdout, run_result, exit_code>>

\* The core count asked for: --smp when given, else every processing unit.
Requested == IF opts.smp = 0 THEN cpus ELSE opts.smp

\* app.run configures the runtime: one reactor per core.
ConfigureOk ==
    /\ pc = "configure"
    /\ Requested <= cpus
    /\ smp_count' = Requested
    /\ reactor' = [c \in 0..(Requested - 1) |-> "init"]
    /\ invoked' = [c \in 0..(Requested - 1) |-> 0]
    /\ pc' = "reactors"
    /\ UNCHANGED <<opts, cpus, task, exiting, stdout, run_result, exit_code>>

\* Configuration fails (more cores asked for than the machine has, or the
\* memory or the inter-core queues cannot be allocated): app.run returns 1.
ConfigureFails ==
    /\ pc = "configure"
    /\ run_result' = 1
    /\ pc' = "returned"
    /\ UNCHANGED <<opts, cpus, smp_count, reactor, task, invoked, exiting,
                   stdout, exit_code>>

\* A core's reactor thread comes up.
StartCore(c) ==
    /\ pc = "reactors"
    /\ reactor[c] = "init"
    /\ reactor' = [reactor EXCEPT ![c] = "running"]
    /\ UNCHANGED <<pc, opts, cpus, smp_count, task, invoked, exiting, stdout,
                   run_result, exit_code>>

\* Once every reactor is up, app.run invokes the startup task (lines 8-11):
\* it writes the online line and returns its future, without suspending.
RunTask ==
    /\ pc = "reactors"
    /\ AllRunning
    /\ task = "none"
    /\ stdout' = stdout \o Repeat(OnlineMsg(ReportedCount),
                                  Cardinality(TaskCores))
    /\ invoked' = [c \in Cores |->
                     IF c \in TaskCores THEN invoked[c] + 1 ELSE invoked[c]]
    /\ task' = TaskFuture
    /\ UNCHANGED <<pc, opts, cpus, smp_count, reactor, exiting, run_result,
                   exit_code>>

\* The task's future is resolved: app.run calls engine().exit(0).
ReactorExit ==
    /\ pc = "reactors"
    /\ task = "ready"
    /\ ~exiting
    /\ exiting' = TRUE
    /\ UNCHANGED <<pc, opts, cpus, smp_count, reactor, task, invoked, stdout,
                   run_result, exit_code>>

\* The reactors stop: the main shard's after every other core's.
StopCore(c) ==
    /\ pc = "reactors"
    /\ exiting
    /\ reactor[c] = "running"
    /\ c = 0 => \A d \in Cores \ {0} : reactor[d] = "stopped"
    /\ reactor' = [reactor EXCEPT ![c] = "stopped"]
    /\ UNCHANGED <<pc, opts, cpus, smp_count, task, invoked, exiting, stdout,
                   run_result, exit_code>>

\* The main reactor's run loop ends: app.run returns the exit value 0.
RunReturns ==
    /\ pc = "reactors"
    /\ exiting
    /\ AllStopped
    /\ run_result' = 0
    /\ pc' = "returned"
    /\ UNCHANGED <<opts, cpus, smp_count, reactor, task, invoked, exiting,
                   stdout, exit_code>>

\* main returns (line 12).
MainReturns ==
    /\ pc = "returned"
    /\ exit_code' = MainReturnValue(run_result)
    /\ pc' = "exited"
    /\ UNCHANGED <<opts, cpus, smp_count, reactor, task, invoked, exiting,
                   stdout, run_result>>

Next ==
    \/ ParseRejected
    \/ ParseHelp
    \/ ParseOk
    \/ ConfigureOk
    \/ ConfigureFails
    \/ \E c \in Cores : StartCore(c)
    \/ RunTask
    \/ ReactorExit
    \/ \E c \in Cores : StopCore(c)
    \/ RunReturns
    \/ MainReturns

Spec == Init /\ [][Next]_vars

\* Every thread that can take a step eventually does.
FairSpec == Spec /\ WF_vars(Next)

\* The online lines on standard output.
OnlineLines == {i \in 1..Len(stdout) : stdout[i][1] = "online"}

\* C1: in every run whose runtime starts with N >= 1 cores, the startup
\* task body runs on core 0 only and at most once, standard output holds at
\* most one online line, and from the task's invocation up to exit standard
\* output is exactly the one line reporting N (not one line per core).
\* The program has no request, shard, cache entry, pending call or fabric
\* envelope: its whole state is the variables above.
C1_OnlineOnce ==
    /\ Cardinality(OnlineLines) <= 1
    /\ \A c \in DOMAIN invoked : invoked[c] <= (IF c = 0 THEN 1 ELSE 0)
    /\ task # "none" => smp_count >= 1 /\ stdout = <<OnlineMsg(smp_count)>>
    /\ (pc = "exited" /\ smp_count >= 1) =>
           /\ stdout = <<OnlineMsg(smp_count)>>
           /\ invoked[0] = 1

\* A run on more than one core has exited after writing its online line.
C1_Witness ==
    /\ pc = "exited"
    /\ smp_count >= 2
    /\ stdout = <<OnlineMsg(smp_count)>>

\* C2: the process exit code is 0 exactly when app.run reports a graceful
\* shutdown (0), and non-zero whenever startup fails (app.run reports 1 or
\* 2): the value main returns reflects app.run's outcome.
C2_ExitCodeReflectsRun ==
    pc = "exited" => (exit_code = 0 <=> run_result = 0)

\* C10: every execution terminates: main returns, and once the online line
\* is written the reactors all stop and main returns; the startup task's
\* future is never left pending, so the process never idles waiting for
\* requests.
C10_Terminates ==
    /\ <>(pc = "exited")
    /\ [](task # "pending")
    /\ (Cardinality(OnlineLines) > 0) ~> (pc = "exited" /\ AllStopped)

\* The runtime started, the online line was written, every reactor stopped
\* and main returned.
C10_Witness ==
    /\ pc = "exited"
    /\ Cardinality(OnlineLines) = 1
    /\ smp_count >= 1
    /\ AllStopped
    /\ run_result = 0

====
